---- MODULE Spec2Model ----
(***************************************************************************)
(* Model of the response normalisation layer of vnstock-service:           *)
(* safe_convert_to_records (controllers/common.py), the function every     *)
(* endpoint passes its upstream result through.                            *)
(*                                                                         *)
(* A Python value is a record [k |-> kind, v |-> payload]; the payload is  *)
(* the value's printed form.  A Python string used as a mapping key is a   *)
(* sequence of tokens, the underscore being a token of its own, so that    *)
(* '_'.join and str.strip('_') are computed and not assumed.               *)
(***************************************************************************)
EXTENDS Integers, Sequences, FiniteSets, TLC

\* ---------------------------------------------------------------- bounds
MaxCells == 2        \* rows * columns of a table with flat headers
MaxLen == 2          \* entries of a series, elements of a list input
MaxHeaderSlots == 6  \* levels * columns of a table with hierarchical headers

\* ---------------------------------------------------------------- values
Val(kind, payload) == [k |-> kind, v |-> payload]

PyNone == Val("none", "None")

\* What a cell of a table or an entry of a series can hold.
FloatValues == {Val("float", p) : p \in {"1.5", "nan", "inf", "-inf"}}
NpFloatValues == {Val("npfloat", p) : p \in {"1.5", "nan", "inf"}}
                    \cup {Val("npfloat64", "2.5")}
NpIntValues == {Val("npint", "7")}
TemporalValues == {Val("ts", "2024-01-02"), Val("nat", "NaT")}
PlainValues == {Val("int", "3"), Val("str", "abc"), Val("bool", "True"), PyNone}
NonScalarValues == {Val("list", "[1]"), Val("list", "[1, 2]")}
CellValues == FloatValues \cup NpFloatValues \cup NpIntValues \cup TemporalValues
                \cup PlainValues \cup {Val("na", "<NA>")} \cup NonScalarValues

\* isinstance(value, float): numpy's float64 is a subclass of the built-in float.
IsPyFloat(x) == x.k \in {"float", "npfloat64"}
\* isinstance(value, np.floating)
IsNpFloating(x) == x.k \in {"npfloat", "npfloat64"}
\* isinstance(value, np.integer)
IsNpInteger(x) == x.k = "npint"
\* isinstance(value, (datetime, pd.Timestamp)): pandas' NaT is an instance of
\* datetime too.
IsDatetime(x) == x.k \in {"ts", "nat"}
\* np.isnan(value), np.isinf(value) on a float-like value
IsNan(x) == x.v = "nan"
IsInf(x) == x.v \in {"inf", "-inf"}

\* Number of elements of a list-valued cell.
ListLen(x) == CASE x.v = "[1]" -> 1
                [] x.v = "[1, 2]" -> 2
                [] OTHER -> 0

\* pd.isna(value) used as a condition: "T", "F", or "raise" when the answer is an
\* array of two or more truth values, which has no truth value.
IsNaTruth(x) ==
    IF x.k = "list"
      THEN (IF ListLen(x) >= 2 THEN "raise" ELSE "F")
      ELSE IF \/ x.k \in {"none", "nat", "na"}
              \/ (x.k \in {"float", "npfloat", "npfloat64"} /\ IsNan(x))
             THEN "T"
             ELSE "F"

\* float(value), int(value), value.item(): the plain number of the same magnitude.
ToPyFloat(x) == Val("float", x.v)
ToPyInt(x) == Val("int", x.v)
Item(x) == IF IsNpInteger(x) THEN ToPyInt(x) ELSE ToPyFloat(x)

\* value.isoformat() of a defined timestamp.
IsoFormat(x) ==
    Val("str", CASE x.v = "2024-01-02" -> "2024-01-02T00:00:00"
                 [] OTHER -> "NaT")

\* The marker a value is replaced with when its conversion raised.
Raise == Val("raise", "ValueError")

\* ------------------------------------------------------- strings and keys
\* A one-token string, such as the key "index".
K(s) == <<s>>

\* str(idx) of a series index key, as a string value.
Str(x) ==
    Val("str", CASE x.k = "ts" -> "2024-01-02 00:00:00"
                 [] OTHER -> x.v)

\* '_'.join(levels)
RECURSIVE Join(_)
Join(col) ==
    IF Len(col) = 0 THEN <<>>
    ELSE IF Len(col) = 1 THEN col[1]
    ELSE col[1] \o <<"_">> \o Join(Tail(col))

\* s.strip('_'): underscores removed from both ends only.
RECURSIVE LStrip(_)
LStrip(s) == IF Len(s) > 0 /\ s[1] = "_" THEN LStrip(Tail(s)) ELSE s
RECURSIVE RStrip(_)
RStrip(s) ==
    IF Len(s) > 0 /\ s[Len(s)] = "_" THEN RStrip(SubSeq(s, 1, Len(s) - 1)) ELSE s
Strip(s) == RStrip(LStrip(s))

\* Flatten naming a column after the last level of its header.
Flatten_LastLevel(col) == col[Len(col)]

\* The key given to one hierarchical column header (a tuple of levels).
Flatten(col) == Strip(Join(col))

\* ------------------------------------------------------- top-level objects
NoneObj == [shape |-> "none"]
PyList(items) == [shape |-> "list", items |-> items]
PyDict(map) == [shape |-> "dict", map |-> map]
Series(index, values) == [shape |-> "series", index |-> index, values |-> values]
Table(multi, columns, rows) ==
    [shape |-> "table", multi |-> multi, columns |-> columns, rows |-> rows]
Other(text) == [shape |-> "other", text |-> text]
Raised == [shape |-> "raise"]

\* ------------------------------------------------------- the series branch
\* One entry's value: the body of the loop over df.items().
SeriesValue(val) ==
    LET na == IsNaTruth(val) IN
    IF na = "raise" THEN Raise
    ELSE IF na = "T" THEN PyNone
    ELSE IF IsNpFloating(val) \/ IsNpInteger(val)
        THEN (IF IsNan(val) THEN PyNone ELSE Item(val))
    ELSE val

\* SeriesRecord with the index key left as it is, not rendered as a string.
SeriesRecord_RawIndex(idx, val) ==
    [f \in {K("index"), K("value")} |->
        IF f = K("index") THEN idx ELSE SeriesValue(val)]

SeriesRecord(idx, val) ==
    [f \in {K("index"), K("value")} |->
        IF f = K("index") THEN Str(idx) ELSE SeriesValue(val)]

ConvertSeries(df) ==
    LET n == Len(df.values) IN
    IF \E i \in 1..n : SeriesValue(df.values[i]) = Raise
      THEN Raised
      ELSE PyList([i \in 1..n |-> SeriesRecord(df.index[i], df.values[i])])

\* ------------------------------------------------------- the table branch
\* df.empty
IsEmptyTable(df) == Len(df.rows) = 0 \/ Len(df.columns) = 0

\* The column keys after the MultiIndex step.
ColumnKeys(df) ==
    IF df.multi
      THEN [j \in 1..Len(df.columns) |-> Flatten(df.columns[j])]
      ELSE df.columns

\* What to_dict hands out for a cell: pandas boxes every numpy scalar as the
\* plain number of the same magnitude (float(), int()) and leaves timestamps,
\* NaT, the NA sentinel, None, strings and lists as they are.
BoxNative(x) ==
    IF IsNpFloating(x) \/ x.k = "float" THEN ToPyFloat(x)
    ELSE IF IsNpInteger(x) THEN ToPyInt(x)
    ELSE x

\* df.to_dict(orient="records"): one mapping per row; of two columns with the
\* same key the later one's cell is kept.
LastColumn(keys, key) ==
    CHOOSE j \in 1..Len(keys) :
        /\ keys[j] = key
        /\ \A h \in 1..Len(keys) : keys[h] = key => h <= j

ToDictRecords(keys, rows) ==
    [i \in 1..Len(rows) |->
        [key \in {keys[j] : j \in 1..Len(keys)} |->
            BoxNative(rows[i][LastColumn(keys, key)])]]

\* CleanValue with the NaN test alone: infinities pass.
CleanValue_NanOnly(value) ==
    IF value = PyNone THEN value
    ELSE IF IsPyFloat(value) THEN (IF IsNan(value) THEN PyNone ELSE value)
    ELSE IF IsNpFloating(value)
        THEN (IF IsNan(value) THEN PyNone ELSE ToPyFloat(value))
    ELSE IF IsNpInteger(value) THEN ToPyInt(value)
    ELSE IF IsDatetime(value)
        THEN (IF IsNaTruth(value) = "F" THEN IsoFormat(value) ELSE PyNone)
    ELSE IF IsNaTruth(value) = "raise" THEN Raise
    ELSE IF IsNaTruth(value) = "T" THEN PyNone
    ELSE value

\* CleanValue rendering every temporal value, the missing one included.
CleanValue_NoNotnaTest(value) ==
    IF value = PyNone THEN value
    ELSE IF IsPyFloat(value)
        THEN (IF IsNan(value) \/ IsInf(value) THEN PyNone ELSE value)
    ELSE IF IsNpFloating(value)
        THEN (IF IsNan(value) \/ IsInf(value) THEN PyNone ELSE ToPyFloat(value))
    ELSE IF IsNpInteger(value) THEN ToPyInt(value)
    ELSE IF IsDatetime(value) THEN IsoFormat(value)
    ELSE IF IsNaTruth(value) = "raise" THEN Raise
    ELSE IF IsNaTruth(value) = "T" THEN PyNone
    ELSE value

\* The clean-up of one value of one record.
CleanValue(value) ==
    IF value = PyNone THEN value
    ELSE IF IsPyFloat(value)
        THEN (IF IsNan(value) \/ IsInf(value) THEN PyNone ELSE value)
    ELSE IF IsNpFloating(value)
        THEN (IF IsNan(value) \/ IsInf(value) THEN PyNone ELSE ToPyFloat(value))
    ELSE IF IsNpInteger(value) THEN ToPyInt(value)
    ELSE IF IsDatetime(value)
        THEN (IF IsNaTruth(value) = "F" THEN IsoFormat(value) ELSE PyNone)
    ELSE IF IsNaTruth(value) = "raise" THEN Raise
    ELSE IF IsNaTruth(value) = "T" THEN PyNone
    ELSE value

\* CleanRecord leaving out the keys whose values became null.
CleanRecord_DropNull(record) ==
    [key \in {k \in DOMAIN record : CleanValue(record[k]) # PyNone} |->
        CleanValue(record[key])]

CleanRecord(record) == [key \in DOMAIN record |-> CleanValue(record[key])]

ConvertTable(df) ==
    LET records == ToDictRecords(ColumnKeys(df), df.rows)
        cleaned == [i \in 1..Len(records) |-> CleanRecord(records[i])]
    IN  IF \E i \in 1..Len(cleaned) : \E key \in DOMAIN cleaned[i] :
              cleaned[i][key] = Raise
          THEN Raised
          ELSE PyList(cleaned)

\* ------------------------------------------------------- the function
\* The function without its first statement: an absent default stays None.
safe_convert_to_records_NoEmptyList(df, default_value) ==
    IF df.shape = "none" THEN default_value
    ELSE IF df.shape = "series" THEN ConvertSeries(df)
    ELSE IF df.shape = "table"
        THEN (IF IsEmptyTable(df) THEN default_value ELSE ConvertTable(df))
    ELSE IF df.shape = "dict" THEN PyList(<<df.map>>)
    ELSE IF df.shape = "list" THEN df
    ELSE default_value

\* The function without its list branch: a list falls through to the default.
safe_convert_to_records_NoListBranch(df, default_value) ==
    LET dv == IF default_value = NoneObj THEN PyList(<<>>) ELSE default_value IN
    IF df.shape = "none" THEN dv
    ELSE IF df.shape = "series" THEN ConvertSeries(df)
    ELSE IF df.shape = "table"
        THEN (IF IsEmptyTable(df) THEN dv ELSE ConvertTable(df))
    ELSE IF df.shape = "dict" THEN PyList(<<df.map>>)
    ELSE dv

\* The function cleaning the values of a single mapping as it does a table's.
safe_convert_to_records_CleanDict(df, default_value) ==
    LET dv == IF default_value = NoneObj THEN PyList(<<>>) ELSE default_value IN
    IF df.shape = "none" THEN dv
    ELSE IF df.shape = "series" THEN ConvertSeries(df)
    ELSE IF df.shape = "table"
        THEN (IF IsEmptyTable(df) THEN dv ELSE ConvertTable(df))
    ELSE IF df.shape = "dict" THEN PyList(<<CleanRecord(df.map)>>)
    ELSE IF df.shape = "list" THEN df
    ELSE dv

\* The function answering an unrecognised shape with an empty list even when
\* the caller supplied a default.
safe_convert_to_records_OtherIgnoresDefault(df, default_value) ==
    LET dv == IF default_value = NoneObj THEN PyList(<<>>) ELSE default_value IN
    IF df.shape = "none" THEN dv
    ELSE IF df.shape = "series" THEN ConvertSeries(df)
    ELSE IF df.shape = "table"
        THEN (IF IsEmptyTable(df) THEN dv ELSE ConvertTable(df))
    ELSE IF df.shape = "dict" THEN PyList(<<df.map>>)
    ELSE IF df.shape = "list" THEN df
    ELSE PyList(<<>>)

safe_convert_to_records(df, default_value) ==
    LET dv == IF default_value = NoneObj THEN PyList(<<>>) ELSE default_value IN
    IF df.shape = "none" THEN dv
    ELSE IF df.shape = "series" THEN ConvertSeries(df)
    ELSE IF df.shape = "table"
        THEN (IF IsEmptyTable(df) THEN dv ELSE ConvertTable(df))
    ELSE IF df.shape = "dict" THEN PyList(<<df.map>>)
    ELSE IF df.shape = "list" THEN df
    ELSE dv

\* The caller's object with the flattened column keys assigned to it: what the
\* call would leave behind if line 48 assigned to the caller's table.
InputAfterCall_NoCopy(x) ==
    IF x.shape = "table" /\ ~IsEmptyTable(x) /\ x.multi
      THEN Table(FALSE, ColumnKeys(x), x.rows)
      ELSE x

\* The caller's object after the call.  Line 47 rebinds the local name to a copy
\* before line 48 assigns the flattened keys, to_dict builds fresh mappings for
\* the clean-up loop to write to, and the other branches only read their input.
InputAfterCall(x) == x

\* ------------------------------------------------------- the copy in api_server.py
\* api_server.py defines safe_convert_to_records a second time (lines 44-114);
\* its handlers call that copy.  The copy is translated statement by statement
\* here, on the same model of pandas' and numpy's operations.
api_server_SeriesValue(val) ==
    IF IsNaTruth(val) = "raise" THEN Raise
    ELSE IF IsNaTruth(val) = "T" THEN PyNone
    ELSE IF IsNpFloating(val) \/ IsNpInteger(val)
        THEN (IF IsNan(val) THEN PyNone ELSE Item(val))
    ELSE val

api_server_ConvertSeries(df) ==
    LET n == Len(df.values)
        entry(i) == [f \in {K("index"), K("value")} |->
                        IF f = K("index") THEN Str(df.index[i])
                                          ELSE api_server_SeriesValue(df.values[i])]
    IN  IF \E i \in 1..n : api_server_SeriesValue(df.values[i]) = Raise
          THEN Raised
          ELSE PyList([i \in 1..n |-> entry(i)])

\* The copy's clean-up with temporal values left as they are.
api_server_CleanValue_NoIsoformat(value) ==
    IF value = PyNone THEN value
    ELSE IF IsPyFloat(value)
        THEN (IF IsNan(value) \/ IsInf(value) THEN PyNone ELSE value)
    ELSE IF IsNpFloating(value)
        THEN (IF IsNan(value) \/ IsInf(value) THEN PyNone ELSE ToPyFloat(value))
    ELSE IF IsNpInteger(value) THEN ToPyInt(value)
    ELSE IF IsDatetime(value) THEN value
    ELSE IF IsNaTruth(value) = "raise" THEN Raise
    ELSE IF IsNaTruth(value) = "T" THEN PyNone
    ELSE value

api_server_CleanValue(value) ==
    IF value = PyNone THEN value
    ELSE IF IsPyFloat(value)
        THEN (IF IsNan(value) \/ IsInf(value) THEN PyNone ELSE value)
    ELSE IF IsNpFloating(value)
        THEN (IF IsNan(value) \/ IsInf(value) THEN PyNone ELSE ToPyFloat(value))
    ELSE IF IsNpInteger(value) THEN ToPyInt(value)
    ELSE IF IsDatetime(value)
        THEN (IF IsNaTruth(value) = "F" THEN IsoFormat(value) ELSE PyNone)
    ELSE IF IsNaTruth(value) = "raise" THEN Raise
    ELSE IF IsNaTruth(value) = "T" THEN PyNone
    ELSE value

api_server_ConvertTable(df) ==
    LET keys == IF df.multi
                  THEN [j \in 1..Len(df.columns) |-> Strip(Join(df.columns[j]))]
                  ELSE df.columns
        records == ToDictRecords(keys, df.rows)
        cleaned == [i \in 1..Len(records) |->
                      [key \in DOMAIN records[i] |-> api_server_CleanValue(records[i][key])]]
    IN  IF \E i \in 1..Len(cleaned) : \E key \in DOMAIN cleaned[i] :
              cleaned[i][key] = Raise
          THEN Raised
          ELSE PyList(cleaned)

api_server_safe_convert_to_records(df, default_value) ==
    LET dv == IF default_value = NoneObj THEN PyList(<<>>) ELSE default_value IN
    IF df.shape = "none" THEN dv
    ELSE IF df.shape = "series" THEN api_server_ConvertSeries(df)
    ELSE IF df.shape = "table"
        THEN (IF Len(df.rows) = 0 \/ Len(df.columns) = 0 THEN dv
              ELSE api_server_ConvertTable(df))
    ELSE IF df.shape = "dict" THEN PyList(<<df.map>>)
    ELSE IF df.shape = "list" THEN df
    ELSE dv

\* ------------------------------------------------------- inputs
IndexKeys == {Val("int", "0"), Val("str", "a")}
ColNames == {K("date"), K("close")}
\* A level of a hierarchical header: "", "a", "b" and "a_b".
Levels == {<<>>, <<"a">>, <<"b">>, <<"a", "_", "b">>}
HeaderCells == {Val("int", "3"), Val("float", "nan")}
DictKeys == {K("a"), K("b")}

IsSeriesInput(x) ==
    \E n \in 0..MaxLen : \E ix \in [1..n -> IndexKeys], vs \in [1..n -> CellValues] :
        x = Series(ix, vs)

FlatShapes == {rc \in (0..MaxCells) \X (0..MaxCells) : rc[1] * rc[2] <= MaxCells}
IsFlatTable(x) ==
    \E rc \in FlatShapes :
        \E cols \in [1..rc[2] -> ColNames], rows \in [1..rc[1] -> [1..rc[2] -> CellValues]] :
            x = Table(FALSE, cols, rows)

\* Hierarchical headers: every column has the same number (two or more) of levels.
HeaderShapes ==
    {lc \in (2..MaxHeaderSlots) \X (1..MaxHeaderSlots) : lc[1] * lc[2] <= MaxHeaderSlots}
IsMultiTable(x) ==
    \E lc \in HeaderShapes :
        \E cols \in [1..lc[2] -> [1..lc[1] -> Levels]], row \in [1..lc[2] -> HeaderCells] :
            x = Table(TRUE, cols, <<row>>)

Mappings(keys, values) == UNION {[ks -> values] : ks \in SUBSET keys}
IsDictInput(x) == \E m \in Mappings(DictKeys, CellValues) : x = PyDict(m)
IsListInput(x) ==
    \E n \in 0..MaxLen : \E items \in [1..n -> Mappings({K("a")}, CellValues)] :
        x = PyList(items)
IsOtherInput(x) == x \in {Other("abc"), Other("42")}

\* default_value: not supplied (None), or a value of the caller's.
DefaultRecord == [key \in {K("error")} |-> Val("str", "no data")]
DefaultValues == {NoneObj, PyList(<<DefaultRecord>>)}

\* ------------------------------------------------------- the state machine
\* One call of the normalizer.
VARIABLES df, default_value, result, pc
\* The server: its assembly, the requests in hand, each request's progress, the
\* request whose handler holds the event loop, the upstream calls made for each
\* request, the arguments its accessor was invoked with, what its upstream call
\* gave, and the response sent.
VARIABLES assembly, request, phase, loop, calls, invoked, upstream, response

nvars == <<df, default_value, result, pc>>
svars == <<assembly, request, phase, loop, calls, invoked, upstream, response>>
vars == <<nvars, svars>>

Pending == [shape |-> "pending"]

\* No server is running: the function is called on its own.
NoServer ==
    /\ assembly = "none"
    /\ request = <<>>
    /\ phase = <<>>
    /\ loop = 0
    /\ calls = <<>>
    /\ invoked = <<>>
    /\ upstream = <<>>
    /\ response = <<>>

Init ==
    /\ \/ df = NoneObj
       \/ IsSeriesInput(df)
       \/ IsFlatTable(df)
       \/ IsMultiTable(df)
       \/ IsDictInput(df)
       \/ IsListInput(df)
       \/ IsOtherInput(df)
    /\ default_value \in DefaultValues
    /\ result = Pending
    /\ pc = "call"
    /\ NoServer

\* The call returns a value.
Return ==
    /\ pc = "call"
    /\ safe_convert_to_records(df, default_value) # Raised
    /\ result' = safe_convert_to_records(df, default_value)
    /\ pc' = "returned"
    /\ df' = InputAfterCall(df)
    /\ UNCHANGED <<default_value, svars>>

\* The call ends in an exception that nothing in the function catches.
Throw ==
    /\ pc = "call"
    /\ safe_convert_to_records(df, default_value) = Raised
    /\ result' = Raised
    /\ pc' = "raised"
    /\ df' = InputAfterCall(df)
    /\ UNCHANGED <<default_value, svars>>

Next == Return \/ Throw

Spec == Init /\ [][Next]_vars

\* ------------------------------------------------------- vocabulary of the claims
Returned == pc = "returned"
Finished == pc # "call"
ResultIsRecords == result.shape = "list"

\* A scalar: anything but a list or an array.
IsScalar(x) == x.k # "list"
\* A floating-point NaN, +Infinity or -Infinity, plain or wrapped.
IsNonFinite(x) == x.k \in {"float", "npfloat", "npfloat64"} /\ x.v \in {"nan", "inf", "-inf"}
\* A string, a number, a boolean or null.
IsJsonScalar(x) == x.k \in {"str", "int", "float", "bool", "none"}

IsSeries == df.shape = "series"
IsTable == df.shape = "table"
IsNonEmptyTable == IsTable /\ ~IsEmptyTable(df)
IsAbsentOrEmpty ==
    \/ df = NoneObj
    \/ IsTable /\ IsEmptyTable(df)
    \/ IsSeries /\ Len(df.values) = 0

\* Every field value of every record of the result satisfies P.
AllResultValues(P(_)) ==
    \A i \in 1..Len(result.items) : \A key \in DOMAIN result.items[i] :
        P(result.items[i][key])

\* ------------------------------------------------------- C1
\* C1: whatever the shape of the input (table, series, single mapping, list of
\* mappings), no field value of a record of the returned sequence is NaN,
\* +Infinity or -Infinity.
NotNonFinite(x) == ~IsNonFinite(x)
C1_NoNanOrInfinityAnywhere ==
    (Returned /\ ResultIsRecords) => AllResultValues(NotNonFinite)

\* ------------------------------------------------------- C2
\* C2: for every non-empty table, whatever its cells hold, every numeric value
\* of every emitted record is neither NaN nor +/-Infinity.
C2_TableRecordsFinite ==
    (Returned /\ IsNonEmptyTable) =>
        /\ ResultIsRecords
        /\ AllResultValues(NotNonFinite)

\* A returned table one of whose cells held a plain Infinity and another a
\* wrapped NaN.
C2_Witness ==
    /\ Returned /\ IsNonEmptyTable
    /\ \E i \in 1..Len(df.rows) : \E j, h \in 1..Len(df.columns) :
          /\ df.rows[i][j] = Val("float", "-inf")
          /\ df.rows[i][h] = Val("npfloat", "nan")
          /\ df.columns[j] # df.columns[h]

\* ------------------------------------------------------- C3
\* The rule of the specification for one cell, in its order of precedence:
\* (a) floating-point NaN or +/-Infinity: null; (b) a temporal value: its
\* ISO-8601 string when defined, null when missing; (c) a missing-data sentinel:
\* null; (d) a numeric wrapper: the plain number of the same magnitude;
\* (e) anything else unchanged.
CellRule(x) ==
    IF IsNonFinite(x) THEN PyNone
    ELSE IF x.k = "ts" THEN Val("str", "2024-01-02T00:00:00")
    ELSE IF x.k = "nat" THEN PyNone
    ELSE IF x.k = "na" THEN PyNone
    ELSE IF x.k \in {"npfloat", "npfloat64"} THEN Val("float", x.v)
    ELSE IF x.k = "npint" THEN Val("int", x.v)
    ELSE x

AllCellsScalar ==
    \A i \in 1..Len(df.rows) : \A j \in 1..Len(df.columns) : IsScalar(df.rows[i][j])

\* The cell of row i a record keeps for column j: the column itself, or the
\* later column of the same key that replaces it.
IsEmitted(j) ==
    \A h \in 1..Len(df.columns) : ColumnKeys(df)[h] = ColumnKeys(df)[j] => h <= j

\* C3: for every cell of a non-empty table of scalar cells, the value emitted
\* for the cell is the rule's result for it.
C3_CellRule ==
    (Finished /\ IsNonEmptyTable /\ AllCellsScalar) =>
        /\ Returned /\ ResultIsRecords
        /\ Len(result.items) = Len(df.rows)
        /\ \A i \in 1..Len(df.rows) : \A j \in 1..Len(df.columns) :
              IsEmitted(j) =>
                  /\ ColumnKeys(df)[j] \in DOMAIN result.items[i]
                  /\ result.items[i][ColumnKeys(df)[j]] = CellRule(df.rows[i][j])

\* The scenario of the specification, one column at a time: a temporal column
\* with a defined and a missing row comes out as the ISO string and null.
C3_Witness ==
    /\ Returned
    /\ df = Table(FALSE, <<K("date")>>,
                  <<<<Val("ts", "2024-01-02")>>, <<Val("nat", "NaT")>>>>)
    /\ result = PyList(<<[key \in {K("date")} |-> Val("str", "2024-01-02T00:00:00")],
                         [key \in {K("date")} |-> PyNone]>>)

\* ------------------------------------------------------- C4
AllEntriesScalar == \A i \in 1..Len(df.values) : IsScalar(df.values[i])

IsMulti == IsTable /\ df.multi

\* The non-empty levels of a header joined by a single underscore.
NonEmptyLevel(level) == Len(level) > 0
JoinNonEmpty(col) == Join(SelectSeq(col, NonEmptyLevel))

\* C5: the key a hierarchical header gets is its non-empty levels joined by a
\* single underscore, empty levels being dropped wherever they occur.
C5_KeyIsNonEmptyLevelsJoined ==
    (Returned /\ IsMulti /\ ~IsEmptyTable(df)) =>
        \A i \in 1..Len(result.items) :
            DOMAIN result.items[i] =
                {JoinNonEmpty(df.columns[j]) : j \in 1..Len(df.columns)}

\* ------------------------------------------------------- C6
HeadersDistinct ==
    \A j, h \in 1..Len(df.columns) : j # h => df.columns[j] # df.columns[h]

\* A level that is a non-empty string without an underscore.
IsPlainLevel(level) ==
    /\ Len(level) > 0
    /\ \A n \in 1..Len(level) : level[n] # "_"
HeadersPlain ==
    \A j \in 1..Len(df.columns) : \A l \in 1..Len(df.columns[j]) :
        IsPlainLevel(df.columns[j][l])

\* Every record has one field per column, and each column's own cell in it.
NoColumnLost ==
    \A i \in 1..Len(result.items) :
        /\ Cardinality(DOMAIN result.items[i]) = Len(df.columns)
        /\ \A j \in 1..Len(df.columns) :
              /\ Flatten(df.columns[j]) \in DOMAIN result.items[i]
              /\ result.items[i][Flatten(df.columns[j])] = CellRule(df.rows[i][j])

\* C6 as stated: two distinct hierarchical headers never get the same key, so
\* every emitted record has as many fields as the table has columns.
C6_DistinctHeadersDistinctKeys ==
    (Returned /\ IsMulti /\ ~IsEmptyTable(df) /\ HeadersDistinct) =>
        \A i \in 1..Len(result.items) :
            Cardinality(DOMAIN result.items[i]) = Len(df.columns)

\* C6 as amended: two distinct hierarchical headers all of whose levels are
\* non-empty strings without an underscore never get the same key, and every
\* record emitted for a table of such headers has one field per column,
\* holding that column's cell.
C6_PlainHeadersDistinctKeys ==
    (Returned /\ IsMulti /\ ~IsEmptyTable(df) /\ HeadersDistinct /\ HeadersPlain) =>
        /\ \A j, h \in 1..Len(df.columns) :
              j # h => ColumnKeys(df)[j] # ColumnKeys(df)[h]
        /\ NoColumnLost

\* A converted table of two distinct plain headers that share their first level.
C6_Witness ==
    /\ Returned /\ IsMulti /\ HeadersDistinct /\ HeadersPlain
    /\ Len(df.columns) = 2
    /\ df.columns[1][1] = df.columns[2][1]
    /\ df.rows[1][1] # df.rows[1][2]

\* ------------------------------------------------------- C7
\* C7: the call never raises, whatever the input.
C7_NeverRaises == pc # "raised"

\* ------------------------------------------------------- C8
\* C8: with no default supplied, an absent or empty input (a null reference, a
\* table with no rows, a series with no entries) gives an empty sequence.
C8_EmptyGivesEmptySequence ==
    (Finished /\ default_value = NoneObj /\ IsAbsentOrEmpty) =>
        /\ Returned
        /\ result = PyList(<<>>)

\* A table with columns and no rows, converted with no default supplied.
C8_Witness ==
    /\ Returned /\ default_value = NoneObj
    /\ IsTable /\ Len(df.rows) = 0 /\ Len(df.columns) > 0
    /\ result = PyList(<<>>)

\* ------------------------------------------------------- C9
\* C9: with a default D supplied, an absent or empty input (a null reference, a
\* table with no rows, and also a series with no entries) gives D.
C9_EmptyGivesDefault ==
    (Finished /\ default_value # NoneObj /\ IsAbsentOrEmpty) =>
        /\ Returned
        /\ result = default_value

\* ------------------------------------------------------- C10
\* C10: for a table or a series, every field value of every returned record is a
\* string, a number, a boolean or null; no temporal object is among them.
C10_OnlyJsonScalars ==
    (Returned /\ (IsTable \/ IsSeries) /\ ResultIsRecords) =>
        AllResultValues(IsJsonScalar)

\* ------------------------------------------------------- C11
\* C11: with no default supplied, normalising the result of a call gives that
\* result again, and a sequence of flat mappings given as input comes back
\* unchanged (same records, same order, same values).
C11_Idempotent ==
    (Returned /\ default_value = NoneObj) =>
        /\ safe_convert_to_records(result, NoneObj) = result
        /\ df.shape = "list" => result = df

\* A list of two mappings, one of them holding a NaN, given back as it came.
C11_Witness ==
    /\ Returned /\ default_value = NoneObj
    /\ df.shape = "list" /\ Len(df.items) = 2
    /\ \E key \in DOMAIN df.items[1] : df.items[1][key] = Val("float", "nan")
    /\ result = df

\* ------------------------------------------------------- C12
\* C12: a single mapping gives a sequence of exactly one element, the mapping
\* itself: same keys, same values.
C12_MappingWrapped ==
    (Finished /\ df.shape = "dict") =>
        /\ Returned /\ ResultIsRecords
        /\ Len(result.items) = 1
        /\ DOMAIN result.items[1] = DOMAIN df.map
        /\ \A key \in DOMAIN df.map : result.items[1][key] = df.map[key]

\* A mapping of two keys, one value an Infinity, wrapped as it is.
C12_Witness ==
    /\ Returned /\ df.shape = "dict"
    /\ DOMAIN df.map = DictKeys
    /\ df.map[K("a")] = Val("float", "inf")
    /\ result = PyList(<<df.map>>)

\* ------------------------------------------------------- C13
\* C13: an input that is not null, a series, a table, a mapping or a list gives
\* the caller's default, or an empty sequence when none was supplied.
C13_OtherShapeGivesDefault ==
    (Finished /\ df.shape = "other") =>
        /\ Returned
        /\ default_value # NoneObj => result = default_value
        /\ default_value = NoneObj => result = PyList(<<>>)

\* A string given with a default of the caller's: the default comes back.
C13_Witness ==
    /\ Returned /\ df = Other("abc")
    /\ default_value = PyList(<<DefaultRecord>>)
    /\ result = default_value

MaxRequests == 2

\* ------------------------------------------------------- upstream accessor calls
\* How an upstream accessor call ends: it returns an object or raises.
Returns(x) == [kind |-> "returns", value |-> x, cls |-> "", msg |-> ""]
Raises(cls, msg) == [kind |-> "raises", value |-> NoneObj, cls |-> cls, msg |-> msg]
\* No call was made, or the call has not ended yet.
NoOutcome == [kind |-> "none", value |-> NoneObj, cls |-> "", msg |-> ""]

\* Objects an accessor hands back.
AssetTypeKey == <<"asset", "_", "type">>
EmptyFrame == Table(FALSE, <<K("date")>>, <<>>)
PriceFrame ==
    Table(FALSE, <<K("date"), K("close")>>,
          << <<Val("ts", "2024-01-02"), Val("float", "nan")>> >>)
NestedFrame == Table(FALSE, <<K("close")>>, << <<Val("list", "[1, 2]")>> >>)
InfSeries == Series(<<Val("int", "0")>>, <<Val("float", "inf")>>)
\* A table with a missing date in its one row.
NaTFrame ==
    Table(FALSE, <<K("date"), K("close")>>,
          << <<Val("nat", "NaT"), Val("float", "1.5")>> >>)
SearchFrame ==
    Table(FALSE, <<K("symbol"), AssetTypeKey>>,
          << <<Val("str", "abc"), Val("str", "Crypto")>>,
             <<Val("str", "abc"), Val("str", "Stock")>> >>)

InvalidArgument == Raises("ValueError", "invalid date range")
ConnectionFailure == Raises("ConnectionError", "connection timed out")

\* ------------------------------------------------------- how a handler ends
\* It returns a body with a status, raises an HTTPException, or raises
\* something else.
Answer(status, body) ==
    [kind |-> "ok", status |-> status, body |-> body, cls |-> "", msg |-> ""]
Ok(body) == Answer(200, body)
HttpExc(status, detail) ==
    [kind |-> "http", status |-> status, body |-> NoneObj,
     cls |-> "HTTPException", msg |-> detail]
Exc(cls, msg) ==
    [kind |-> "exc", status |-> 0, body |-> NoneObj, cls |-> cls, msg |-> msg]

\* str(e) of a caught exception: an HTTPException prints its status before its
\* detail.
StrOf(e) == IF e.kind = "http" THEN ToString(e.status) \o ": " \o e.msg ELSE e.msg

\* What the statement after an accessor call sees: the returned object, or the
\* exception travelling to the except clauses.
RaisedBy(up) == Exc(up.cls, up.msg)

\* safe_convert_to_records(df) as the last statement of a try block.
AmbiguousTruth == "The truth value of an array with more than one element is ambiguous"
Normalized(x) ==
    IF safe_convert_to_records(x, NoneObj) = Raised
      THEN Exc("ValueError", AmbiguousTruth)
      ELSE Ok(safe_convert_to_records(x, NoneObj))

\* df.empty of a table or a series.
DfEmpty(x) ==
    IF x.shape = "table" THEN IsEmptyTable(x) ELSE Len(x.values) = 0

\* The except clauses that swallow a failure: an empty array is returned.
ExceptClauses_Swallow(out, catchesValueError, reraisesHttp) ==
    IF out.kind = "ok" THEN out ELSE Ok(PyList(<<>>))

\* The except clauses closing a handler's try block, tried in order:
\* "except HTTPException: raise" where the handler has it, "except ValueError"
\* where the handler has it, then "except Exception", which an HTTPException
\* raised in the block meets as well.
ExceptClauses(out, catchesValueError, reraisesHttp) ==
    IF out.kind = "ok" THEN out
    ELSE IF out.kind = "http" /\ reraisesHttp THEN out
    ELSE IF out.kind = "exc" /\ out.cls = "ValueError" /\ catchesValueError
        THEN HttpExc(400, StrOf(out))
    ELSE HttpExc(500, StrOf(out))

\* ------------------------------------------------------- the handlers
Now == Val("str", "<now>")

\* GET /health: no upstream call.
health_check ==
    Ok(PyDict([key \in {K("status"), K("service"), K("timestamp")} |->
        IF key = K("status") THEN Val("str", "healthy")
        ELSE IF key = K("service") THEN Val("str", "vnstock-api")
        ELSE Now]))

\* The probe written as the data handlers are: its failure raised as a 500.
readiness_check_AsDataHandler(up) ==
    ExceptClauses(
        IF up.kind = "raises" THEN RaisedBy(up)
        ELSE Ok(PyDict([key \in {K("ready"), K("timestamp")} |->
                IF key = K("ready") THEN Val("bool", "True") ELSE Now])),
        FALSE, FALSE)

\* GET /ready: the listing call is a probe; its failure is answered with 503.
readiness_check(up) ==
    IF up.kind = "raises"
      THEN Answer(503, PyDict([key \in {K("ready"), K("error")} |->
              IF key = K("ready") THEN Val("bool", "False")
              ELSE Val("str", StrOf(RaisedBy(up)))]))
      ELSE Ok(PyDict([key \in {K("ready"), K("timestamp")} |->
              IF key = K("ready") THEN Val("bool", "True") ELSE Now]))

get_sjc_gold_price(up) ==
    ExceptClauses(
        IF up.kind = "raises" THEN RaisedBy(up)
        ELSE IF up.value = NoneObj THEN Ok(PyList(<<>>))
        ELSE Normalized(up.value),
        TRUE, FALSE)

get_btmc_gold_price(up) ==
    ExceptClauses(
        IF up.kind = "raises" THEN RaisedBy(up)
        ELSE IF up.value = NoneObj \/ DfEmpty(up.value) THEN Ok(PyList(<<>>))
        ELSE Normalized(up.value),
        FALSE, FALSE)

get_vcb_exchange_rate(up) ==
    ExceptClauses(
        IF up.kind = "raises" THEN RaisedBy(up)
        ELSE IF up.value = NoneObj \/ DfEmpty(up.value) THEN Ok(PyList(<<>>))
        ELSE Normalized(up.value),
        TRUE, FALSE)

\* The body shared by the handlers that pass the accessor's object straight to
\* the normalizer and have "except Exception" alone.
NormalizeOrFail(up) ==
    ExceptClauses(
        IF up.kind = "raises" THEN RaisedBy(up) ELSE Normalized(up.value),
        FALSE, FALSE)

msn_search_symbol(up) == NormalizeOrFail(up)
msn_get_history(up) == NormalizeOrFail(up)
get_crypto_history(up) == NormalizeOrFail(up)
get_market_indices(up) == NormalizeOrFail(up)

\* value.lower() of a string cell.
Lower(text) == CASE text = "Crypto" -> "crypto"
                 [] text = "Stock" -> "stock"
                 [] OTHER -> text

\* df[df['asset_type'].str.lower() == 'crypto']
CryptoRows(x) ==
    LET j == CHOOSE h \in 1..Len(x.columns) : x.columns[h] = AssetTypeKey
        IsCrypto(row) == row[j].k = "str" /\ Lower(row[j].v) = "crypto"
    IN Table(x.multi, x.columns, SelectSeq(x.rows, IsCrypto))

search_crypto(up) ==
    ExceptClauses(
        IF up.kind = "raises" THEN RaisedBy(up)
        ELSE IF up.value = NoneObj
            THEN Exc("AttributeError", "'NoneType' object has no attribute 'columns'")
        ELSE IF up.value.shape # "table"
            THEN Exc("AttributeError", "'Series' object has no attribute 'columns'")
        ELSE IF \E h \in 1..Len(up.value.columns) : up.value.columns[h] = AssetTypeKey
            THEN Normalized(CryptoRows(up.value))
        ELSE Normalized(up.value),
        FALSE, FALSE)

\* The handler without its "except HTTPException: raise" clause.
get_indices_by_group_NoReraise(up) ==
    ExceptClauses(
        IF up.kind = "raises" THEN RaisedBy(up)
        ELSE IF up.value = NoneObj THEN HttpExc(404, "Group 'VN30' not found")
        ELSE Normalized(up.value),
        FALSE, FALSE)

get_indices_by_group(up) ==
    ExceptClauses(
        IF up.kind = "raises" THEN RaisedBy(up)
        ELSE IF up.value = NoneObj THEN HttpExc(404, "Group 'VN30' not found")
        ELSE Normalized(up.value),
        FALSE, TRUE)

\* s.strip() and s.upper() of one item of symbols.split(",").
StripItem(item) == CASE item = " " -> ""
                     [] item = " acb" -> "acb"
                     [] OTHER -> item
UpperItem(item) == CASE item = "vpb" -> "VPB"
                     [] item = "acb" -> "ACB"
                     [] item = "ssisca" -> "SSISCA"
                     [] OTHER -> item
NonBlank(item) == StripItem(item) # ""
\* [s.strip().upper() for s in symbols.split(",") if s.strip()]
SymbolsList(items) ==
    LET kept == SelectSeq(items, NonBlank)
    IN [i \in 1..Len(kept) |-> UpperItem(StripItem(kept[i]))]

\* GET /api/v1/trading/price-board.  The check of the symbol list stands inside
\* the try block, before the accessor call.
get_price_board(symbols, up) ==
    ExceptClauses(
        IF SymbolsList(symbols) = <<>> THEN HttpExc(400, "Can it nhat mot ma co phieu")
        ELSE IF up.kind = "raises" THEN RaisedBy(up)
        ELSE Normalized(up.value),
        TRUE, FALSE)

\* GET /api/v1/listing/symbols: the records of to_dict are returned as they are.
get_all_symbols(up) ==
    ExceptClauses(
        IF up.kind = "raises" THEN RaisedBy(up)
        ELSE IF up.value = NoneObj \/ DfEmpty(up.value) THEN Ok(PyList(<<>>))
        ELSE IF up.value.shape # "table"
            THEN Exc("TypeError", "to_dict() got an unexpected keyword argument 'orient'")
        ELSE Ok(PyList(ToDictRecords(up.value.columns, up.value.rows))),
        FALSE, FALSE)

\* GET /api/v1/forex/search, and the handlers of api_server.py for the fund
\* and foreign-trade routes: the accessor's object goes to the normalizer.
search_forex(up) == NormalizeOrFail(up)
filter_fund(up) == NormalizeOrFail(up)
get_fund_top_holding(up) == NormalizeOrFail(up)
get_foreign_trade(up) == NormalizeOrFail(up)

\* The loop of get_quote_history over the records of to_dict: a datetime value
\* is replaced by its isoformat(), whatever it is; nothing else is touched.
IsoformatRecords(records) ==
    [i \in 1..Len(records) |->
        [key \in DOMAIN records[i] |->
            IF IsDatetime(records[i][key]) THEN IsoFormat(records[i][key])
                                           ELSE records[i][key]]]

\* GET /api/v1/quote/history.
get_quote_history(up) ==
    ExceptClauses(
        IF up.kind = "raises" THEN RaisedBy(up)
        ELSE IF up.value = NoneObj \/ DfEmpty(up.value) THEN Ok(PyList(<<>>))
        ELSE IF up.value.shape # "table"
            THEN Exc("TypeError", "to_dict() got an unexpected keyword argument 'orient'")
        ELSE Ok(PyList(IsoformatRecords(ToDictRecords(up.value.columns, up.value.rows)))),
        TRUE, FALSE)

\* GET /api/v1/quote/intraday: the records of to_dict are returned as they are.
get_intraday_data(up) ==
    ExceptClauses(
        IF up.kind = "raises" THEN RaisedBy(up)
        ELSE IF up.value = NoneObj \/ DfEmpty(up.value) THEN Ok(PyList(<<>>))
        ELSE IF up.value.shape # "table"
            THEN Exc("TypeError", "to_dict() got an unexpected keyword argument 'orient'")
        ELSE Ok(PyList(ToDictRecords(up.value.columns, up.value.rows))),
        TRUE, FALSE)

\* ------------------------------------------------------- the assemblies
\* The envelope both assemblies declare as ErrorResponse.
ErrorBody(error, detail) ==
    PyDict([key \in {K("error"), K("detail"), K("timestamp")} |->
        IF key = K("error") THEN Val("str", error)
        ELSE IF key = K("detail") THEN Val("str", detail)
        ELSE Now])

Sent(status, body) == [status |-> status, body |-> body]
NoResponse == Sent(0, NoneObj)

\* api_server.py registers a handler for HTTPException ...
http_exception_handler(exc) ==
    Sent(exc.status, ErrorBody("HTTP " \o ToString(exc.status), exc.msg))
\* ... api_server_new.py registers none, so the framework's own answers there.
default_http_exception_handler(exc) ==
    Sent(exc.status, PyDict([key \in {K("detail")} |-> Val("str", exc.msg)]))
\* Both register a handler for Exception.
general_exception_handler(exc) ==
    Sent(500, ErrorBody("Internal Server Error", StrOf(exc)))

\* The framework's encoder renders what the handler returned: a datetime, the
\* missing one included, by its isoformat().
JsonValue(x) == IF IsDatetime(x) THEN IsoFormat(x) ELSE x
JsonBody(body) ==
    IF body.shape = "list"
      THEN PyList([i \in 1..Len(body.items) |->
              [key \in DOMAIN body.items[i] |-> JsonValue(body.items[i][key])]])
      ELSE IF body.shape = "dict"
        THEN PyDict([key \in DOMAIN body.map |-> JsonValue(body.map[key])])
        ELSE body

\* A value JSON has no form for: the response is rendered with allow_nan=False.
HasNonFinite(body) ==
    IF body.shape = "list"
      THEN \E i \in 1..Len(body.items) :
              \E key \in DOMAIN body.items[i] : IsNonFinite(body.items[i][key])
      ELSE IF body.shape = "dict"
        THEN \E key \in DOMAIN body.map : IsNonFinite(body.map[key])
        ELSE FALSE
NotJsonCompliant == "Out of range float values are not JSON compliant"

\* What the handler's end becomes on the wire.  A body that cannot be rendered
\* fails after the handler has returned, where no except clause stands.
Respond(asm, out) ==
    IF out.kind = "ok"
      THEN (IF HasNonFinite(out.body)
              THEN general_exception_handler(Exc("ValueError", NotJsonCompliant))
              ELSE Sent(out.status, JsonBody(out.body)))
      ELSE IF out.kind = "http"
        THEN (IF asm = "api_server" THEN http_exception_handler(out)
                                    ELSE default_http_exception_handler(out))
        ELSE general_exception_handler(out)

\* ------------------------------------------------------- request parameters
\* A request gives some parameters a text; the declarations in the handler's
\* signature say what the framework makes of them before the handler runs.
\* Query(default, ge=, le=): a bound is <<n>>, or <<>> where none is declared.
QueryParam(name, kind, required, default, ge, le) ==
    [name |-> name, kind |-> kind, required |-> required, default |-> default,
     ge |-> ge, le |-> le]
\* name: str = Query(...)
RequiredStr(name) == QueryParam(name, "str", TRUE, "", <<>>, <<>>)
\* name: str = Query(default), name: Optional[str] = Query(None)
OptionalStr(name, default) == QueryParam(name, "str", FALSE, default, <<>>, <<>>)
\* name: int = Query(default, ge=, le=)
BoundedInt(name, default, ge, le) == QueryParam(name, "int", FALSE, default, ge, le)

\* None, as the value of a parameter, and what datetime.now().strftime gives.
NoneText == "None"
Today == "2024-06-28"

\* The signatures.  The symbols of the price board are held split in the
\* request's symbols field.
Declared(route) ==
    CASE route = "get_sjc_gold_price" -> << OptionalStr("date", NoneText) >>
      [] route = "get_vcb_exchange_rate" -> << OptionalStr("date", NoneText) >>
      [] route = "msn_search_symbol" ->
            << RequiredStr("query"), OptionalStr("locale", NoneText),
               BoundedInt("limit", "10", <<1>>, <<50>>) >>
      [] route \in {"search_crypto", "search_forex"} ->
            << RequiredStr("query"), BoundedInt("limit", "10", <<1>>, <<50>>) >>
      [] route \in {"msn_get_history", "get_crypto_history"} ->
            << RequiredStr("symbol_id"), RequiredStr("start"),
               OptionalStr("end", NoneText), OptionalStr("interval", "1D"),
               BoundedInt("count_back", "365", <<1>>, <<>>) >>
      [] route = "get_indices_by_group" -> << RequiredStr("group") >>
      [] route = "get_price_board" -> << OptionalStr("source", "tcbs") >>
      [] route = "get_all_symbols" -> << OptionalStr("source", "vci") >>
      [] route = "get_quote_history" ->
            << RequiredStr("symbol"), RequiredStr("start"),
               OptionalStr("end", NoneText), OptionalStr("interval", "1D"),
               OptionalStr("source", "vci") >>
      [] route = "get_intraday_data" ->
            << RequiredStr("symbol"),
               BoundedInt("page_size", "100", <<1>>, <<1000>>),
               BoundedInt("page", "1", <<1>>, <<>>),
               OptionalStr("source", "vci") >>
      [] route = "filter_fund" -> << OptionalStr("symbol", "") >>
      [] route = "get_fund_top_holding" -> << RequiredStr("symbol") >>
      [] route = "get_foreign_trade" ->
            << RequiredStr("symbol"), RequiredStr("start"),
               OptionalStr("end", NoneText), OptionalStr("source", "tcbs") >>
      [] OTHER -> << >>

\* int(text) of the texts the requests use; any other text is no integer.
IntTexts == {"0", "1", "10", "50", "51", "100", "365", "1000", "1001"}
ParseInt(text) ==
    CASE text = "0" -> 0
      [] text = "1" -> 1
      [] text = "10" -> 10
      [] text = "50" -> 50
      [] text = "51" -> 51
      [] text = "100" -> 100
      [] text = "365" -> 365
      [] text = "1000" -> 1000
      [] text = "1001" -> 1001

\* A validation by declarations that carry no ge= and le=.
ValidParam_NoBounds(p, given) ==
    IF p.name \in DOMAIN given
      THEN p.kind = "int" => given[p.name] \in IntTexts
      ELSE ~p.required

\* One declared parameter against the request: a required one is there, an
\* integer parses and lies within the declared bounds.
ValidParam(p, given) ==
    IF p.name \in DOMAIN given
      THEN p.kind = "int" =>
              /\ given[p.name] \in IntTexts
              /\ p.ge # <<>> => ParseInt(given[p.name]) >= p.ge[1]
              /\ p.le # <<>> => ParseInt(given[p.name]) <= p.le[1]
      ELSE ~p.required

ValidRequest(req) ==
    \A i \in 1..Len(Declared(req.route)) : ValidParam(Declared(req.route)[i], req.params)

\* The value the handler's parameter is bound to.
DefaultOf(route, name) ==
    LET i == CHOOSE j \in 1..Len(Declared(route)) : Declared(route)[j].name = name
    IN Declared(route)[i].default
ArgOf(req, name) ==
    IF name \in DOMAIN req.params THEN req.params[name] ELSE DefaultOf(req.route, name)
IntArgOf(req, name) == ParseInt(ArgOf(req, name))

\* if end is None: end = datetime.now().strftime("%Y-%m-%d")
EndOrToday(end) == IF end = NoneText THEN Today ELSE end

\* The arguments the handler passes to its accessor (the constructor's and the
\* call's together).
NoArgs == << >>
UpstreamArgs(req) ==
    CASE req.route = "get_sjc_gold_price" -> [date |-> ArgOf(req, "date")]
      [] req.route = "get_vcb_exchange_rate" -> [date |-> EndOrToday(ArgOf(req, "date"))]
      [] req.route = "msn_search_symbol" ->
            [query |-> ArgOf(req, "query"), locale |-> ArgOf(req, "locale"),
             limit |-> IntArgOf(req, "limit")]
      [] req.route \in {"search_crypto", "search_forex"} ->
            [query |-> ArgOf(req, "query"), limit |-> IntArgOf(req, "limit")]
      [] req.route = "msn_get_history" ->
            [symbol_id |-> ArgOf(req, "symbol_id"), start |-> ArgOf(req, "start"),
             end |-> EndOrToday(ArgOf(req, "end")), interval |-> ArgOf(req, "interval"),
             count_back |-> IntArgOf(req, "count_back")]
      [] req.route = "get_crypto_history" ->
            [symbol_id |-> ArgOf(req, "symbol_id"), start |-> ArgOf(req, "start"),
             end |-> EndOrToday(ArgOf(req, "end")), interval |-> ArgOf(req, "interval"),
             count_back |-> IntArgOf(req, "count_back"), asset_type |-> "crypto"]
      [] req.route = "get_indices_by_group" -> [group |-> ArgOf(req, "group")]
      [] req.route = "get_price_board" ->
            [source |-> ArgOf(req, "source"), symbol |-> SymbolsList(req.symbols)[1],
             symbol_ls |-> SymbolsList(req.symbols)]
      [] req.route = "get_all_symbols" -> [source |-> ArgOf(req, "source")]
      [] req.route = "get_quote_history" ->
            [source |-> ArgOf(req, "source"), symbol |-> UpperItem(ArgOf(req, "symbol")),
             start |-> ArgOf(req, "start"), end |-> ArgOf(req, "end"),
             interval |-> ArgOf(req, "interval")]
      [] req.route = "get_intraday_data" ->
            [source |-> ArgOf(req, "source"), symbol |-> UpperItem(ArgOf(req, "symbol")),
             page_size |-> IntArgOf(req, "page_size"), page |-> IntArgOf(req, "page")]
      [] req.route = "filter_fund" -> [symbol |-> ArgOf(req, "symbol")]
      [] req.route = "get_fund_top_holding" -> [symbol |-> ArgOf(req, "symbol")]
      [] req.route = "get_foreign_trade" ->
            [source |-> ArgOf(req, "source"), symbol |-> UpperItem(ArgOf(req, "symbol")),
             start |-> ArgOf(req, "start"), end |-> EndOrToday(ArgOf(req, "end"))]
      [] OTHER -> NoArgs

\* ------------------------------------------------------- routes and requests
\* A text for each required parameter.
SampleText(name) ==
    CASE name = "symbol" -> "VPB"
      [] name = "query" -> "btc"
      [] name = "symbol_id" -> "c2111"
      [] name = "start" -> "2024-01-01"
      [] name = "group" -> "VN30"
RequiredParams(route) ==
    [name \in {Declared(route)[i].name :
                  i \in {j \in 1..Len(Declared(route)) : Declared(route)[j].required}}
        |-> SampleText(name)]

\* A request that gives the required parameters and no other.
Req(route, symbols) ==
    [route |-> route, symbols |-> symbols, params |-> RequiredParams(route)]
\* The same with one more parameter given, or given another text.
ReqWith(route, name, text) ==
    [route |-> route, symbols |-> <<>>,
     params |-> [n \in DOMAIN RequiredParams(route) \cup {name} |->
                    IF n = name THEN text ELSE RequiredParams(route)[n]]]
\* The same with one required parameter left out.
ReqWithout(route, name) ==
    [route |-> route, symbols |-> <<>>,
     params |-> [n \in DOMAIN RequiredParams(route) \ {name} |-> RequiredParams(route)[n]]]

\* The requests told apart: one per route, and for the price board one with
\* symbols and one whose symbols are blank.
RequestList ==
    << Req("health_check", <<>>),
       Req("readiness_check", <<>>),
       Req("get_sjc_gold_price", <<>>),
       Req("get_btmc_gold_price", <<>>),
       Req("get_vcb_exchange_rate", <<>>),
       Req("msn_search_symbol", <<>>),
       Req("msn_get_history", <<>>),
       Req("search_crypto", <<>>),
       Req("get_crypto_history", <<>>),
       Req("get_market_indices", <<>>),
       Req("get_indices_by_group", <<>>),
       Req("get_price_board", <<"vpb", " acb">>),
       Req("get_price_board", <<" ">>),
       Req("get_all_symbols", <<>>) >>

\* The requests that vary the parameters.
ParameterRequests ==
    << Req("search_forex", <<>>),
       Req("get_quote_history", <<>>),
       ReqWith("get_quote_history", "symbol", "vpb"),
       ReqWith("get_quote_history", "end", "2024-01-31"),
       ReqWithout("get_quote_history", "symbol"),
       Req("get_intraday_data", <<>>),
       ReqWith("get_intraday_data", "symbol", "acb"),
       ReqWith("get_intraday_data", "page_size", "0"),
       ReqWith("get_intraday_data", "page_size", "1000"),
       ReqWith("get_intraday_data", "page_size", "1001"),
       ReqWith("get_intraday_data", "page", "0"),
       ReqWith("get_intraday_data", "page", "abc"),
       ReqWithout("get_intraday_data", "symbol"),
       Req("filter_fund", <<>>),
       ReqWith("filter_fund", "symbol", "ssisca"),
       ReqWith("filter_fund", "symbol", "SSISCA"),
       ReqWith("get_fund_top_holding", "symbol", "ssisca"),
       ReqWithout("get_fund_top_holding", "symbol"),
       Req("get_foreign_trade", <<>>),
       ReqWith("get_foreign_trade", "symbol", "vpb"),
       ReqWith("get_foreign_trade", "end", "2024-01-31"),
       ReqWith("msn_get_history", "end", "2024-01-31"),
       ReqWith("msn_get_history", "count_back", "0"),
       ReqWith("get_crypto_history", "count_back", "1"),
       ReqWith("msn_search_symbol", "limit", "0"),
       ReqWith("msn_search_symbol", "limit", "1"),
       ReqWith("msn_search_symbol", "limit", "50"),
       ReqWith("msn_search_symbol", "limit", "51"),
       ReqWithout("msn_search_symbol", "query"),
       ReqWith("search_crypto", "limit", "51"),
       ReqWith("search_forex", "limit", "0") >>
RequestCatalogue == RequestList \o ParameterRequests

Assemblies == {"api_server", "api_server_new"}
\* Routes whose handlers are read in api_server.py: the quote, listing, trading
\* and fund routers that api_server_new.py includes are not among the sources.
MonolithOnly == {"get_price_board", "get_all_symbols", "get_quote_history",
                 "get_intraday_data", "filter_fund", "get_fund_top_holding",
                 "get_foreign_trade"}
Serves(asm, route) == asm = "api_server" \/ route \notin MonolithOnly

\* The routes that answer with upstream data.
IsDataRoute(route) == route \notin {"health_check", "readiness_check"}

\* The framework lets the request through to the handler, and the handler's try
\* block reaches its accessor call.
MakesCall(req) ==
    /\ ValidRequest(req)
    /\ req.route # "health_check"
    /\ req.route = "get_price_board" => SymbolsList(req.symbols) # <<>>

\* A handler calling the accessor in both branches' ways.
CallsOnPath_BothBranches(route) == IF route = "get_price_board" THEN 2 ELSE 1

\* Accessor calls on the path of a handler that reaches its call: one call
\* statement, in no loop (get_price_board has two, one in each branch of an if).
CallsOnPath(route) == 1

\* How the accessor call of a route can end.
UpstreamOutcomes(route) ==
    IF route = "readiness_check"
      THEN {Returns(PriceFrame), Returns(NoneObj), ConnectionFailure, InvalidArgument}
    ELSE {InvalidArgument, ConnectionFailure, Returns(NoneObj), Returns(EmptyFrame),
          Returns(PriceFrame), Returns(NestedFrame), Returns(InfSeries)}
         \cup (IF route = "search_crypto" THEN {Returns(SearchFrame)} ELSE {})
         \cup (IF route \in {"get_quote_history", "get_intraday_data", "get_all_symbols"}
                 THEN {Returns(NaTFrame)} ELSE {})

\* The route table.
Handler(req, up) ==
    CASE req.route = "health_check" -> health_check
      [] req.route = "readiness_check" -> readiness_check(up)
      [] req.route = "get_sjc_gold_price" -> get_sjc_gold_price(up)
      [] req.route = "get_btmc_gold_price" -> get_btmc_gold_price(up)
      [] req.route = "get_vcb_exchange_rate" -> get_vcb_exchange_rate(up)
      [] req.route = "msn_search_symbol" -> msn_search_symbol(up)
      [] req.route = "msn_get_history" -> msn_get_history(up)
      [] req.route = "search_crypto" -> search_crypto(up)
      [] req.route = "get_crypto_history" -> get_crypto_history(up)
      [] req.route = "get_market_indices" -> get_market_indices(up)
      [] req.route = "get_indices_by_group" -> get_indices_by_group(up)
      [] req.route = "get_price_board" -> get_price_board(req.symbols, up)
      [] req.route = "get_all_symbols" -> get_all_symbols(up)
      [] req.route = "search_forex" -> search_forex(up)
      [] req.route = "get_quote_history" -> get_quote_history(up)
      [] req.route = "get_intraday_data" -> get_intraday_data(up)
      [] req.route = "filter_fund" -> filter_fund(up)
      [] req.route = "get_fund_top_holding" -> get_fund_top_holding(up)
      [] req.route = "get_foreign_trade" -> get_foreign_trade(up)

\* What the framework answers a request its validation turns away.
Unprocessable ==
    Answer(422, PyDict([key \in {K("detail")} |-> Val("str", "<validation errors>")]))

\* The framework validates the parameters against the declarations, and only
\* then calls the handler.
Endpoint(req, up) == IF ValidRequest(req) THEN Handler(req, up) ELSE Unprocessable

\* ------------------------------------------------------- the server
\* The server runs one event loop in one process, and every handler is a
\* coroutine that calls its accessor without awaiting: from the call to its end
\* the loop is the handler's.
\* The server starts with up to `most` requests of `list` in hand, numbered in
\* the order of the list (the server takes them up in any order).
StartWith(list, most) ==
    /\ df = NoneObj /\ default_value = NoneObj /\ result = Pending /\ pc = "idle"
    /\ assembly \in Assemblies
    /\ \E n \in 1..most :
          \E ix \in [1..n -> 1..Len(list)] :
              /\ \A i \in 1..n : Serves(assembly, list[ix[i]].route)
              /\ \A i \in 1..n : \A j \in 1..n : i <= j => ix[i] <= ix[j]
              /\ request = [r \in 1..n |-> list[ix[r]]]
              /\ phase = [r \in 1..n |-> "queued"]
              /\ calls = [r \in 1..n |-> 0]
              /\ invoked = [r \in 1..n |-> NoArgs]
              /\ upstream = [r \in 1..n |-> NoOutcome]
              /\ response = [r \in 1..n |-> NoResponse]
    /\ loop = 0

ServerInit == StartWith(RequestList, MaxRequests)

\* The loop runs a handler that ends without reaching an accessor call.
HandleLocally(r) ==
    /\ loop = 0
    /\ phase[r] = "queued"
    /\ ~MakesCall(request[r])
    /\ response' = [response EXCEPT ![r] = Respond(assembly, Endpoint(request[r], NoOutcome))]
    /\ phase' = [phase EXCEPT ![r] = "done"]
    /\ UNCHANGED <<nvars, assembly, request, loop, calls, invoked, upstream>>

\* The loop runs a handler up to its accessor call.
CallUpstream(r) ==
    /\ loop = 0
    /\ phase[r] = "queued"
    /\ MakesCall(request[r])
    /\ loop' = r
    /\ phase' = [phase EXCEPT ![r] = "upstream"]
    /\ calls' = [calls EXCEPT ![r] = @ + CallsOnPath(request[r].route)]
    /\ invoked' = [invoked EXCEPT ![r] = UpstreamArgs(request[r])]
    /\ UNCHANGED <<nvars, assembly, request, upstream, response>>

\* The accessor call ends; the handler runs to its end and the response is sent.
UpstreamEnds(r) ==
    /\ phase[r] = "upstream"
    /\ \E up \in UpstreamOutcomes(request[r].route) :
          /\ upstream' = [upstream EXCEPT ![r] = up]
          /\ response' = [response EXCEPT ![r] = Respond(assembly, Endpoint(request[r], up))]
    /\ phase' = [phase EXCEPT ![r] = "done"]
    /\ loop' = 0
    /\ UNCHANGED <<nvars, assembly, request, calls, invoked>>

ServerNext ==
    \/ \E r \in DOMAIN request : HandleLocally(r)
    \/ \E r \in DOMAIN request : CallUpstream(r)
    \/ \E r \in DOMAIN request : UpstreamEnds(r)

ServerSpec == ServerInit /\ [][ServerNext]_vars

\* One request in hand, drawn from the longer catalogue that varies the
\* parameters: requests share no state, so what a handler does with its own
\* parameters shows with one request.
RequestInit == StartWith(RequestCatalogue, 1)
RequestSpec == RequestInit /\ [][ServerNext]_vars

\* ------------------------------------------------------- vocabulary of the handler claims
Done(r) == phase[r] = "done"
UpstreamRaised(r) == upstream[r].kind = "raises"
StatusOf(r) == response[r].status
BodyFields(r) == IF response[r].body.shape = "dict" THEN DOMAIN response[r].body.map ELSE {}
FieldOf(r, name) ==
    IF K(name) \in BodyFields(r) THEN response[r].body.map[K(name)].v ELSE "<absent>"
Envelope == {K("error"), K("detail"), K("timestamp")}

\* The accessor returned an object that the handler hands to the normalizer,
\* and the normalizer raises on it.
NormalizationFailed(r) ==
    /\ upstream[r].kind = "returns"
    /\ request[r].route \notin {"health_check", "readiness_check", "get_all_symbols"}
    /\ upstream[r].value.shape \in {"table", "series"}
    /\ ~DfEmpty(upstream[r].value)
    /\ safe_convert_to_records(upstream[r].value, NoneObj) = Raised

\* ------------------------------------------------------- C15
\* C15: on every data route, an invalid-argument failure (ValueError) of the
\* accessor call is answered 400 and any other failure 500, each with the
\* failure's message as the detail.
C15_ExceptionMapping ==
    \A r \in DOMAIN request :
        (Done(r) /\ IsDataRoute(request[r].route) /\ UpstreamRaised(r)) =>
            /\ StatusOf(r) = (IF upstream[r].cls = "ValueError" THEN 400 ELSE 500)
            /\ FieldOf(r, "detail") = upstream[r].msg

\* ------------------------------------------------------- C16
\* C16: in both assemblies a response with status 400, 404 or 500 has exactly
\* the fields error, detail and timestamp; when the handler raised an
\* HTTPException with status S, error is "HTTP S" and detail is its message.
C16_ErrorEnvelope ==
    \A r \in DOMAIN request :
        (Done(r) /\ StatusOf(r) \in {400, 404, 500}) =>
            /\ BodyFields(r) = Envelope
            /\ Handler(request[r], upstream[r]).kind = "http" =>
                  /\ FieldOf(r, "error") = "HTTP " \o ToString(StatusOf(r))
                  /\ FieldOf(r, "detail") = Handler(request[r], upstream[r]).msg

\* ------------------------------------------------------- C17
\* C17: when the accessor call returned and the normalization of its result
\* raised, the response is 500, never 400.
C17_NormalizationFailureIs500 ==
    \A r \in DOMAIN request :
        (Done(r) /\ NormalizationFailed(r)) => StatusOf(r) = 500

\* ------------------------------------------------------- C18
\* C18: while one request's handler waits for its accessor call, any other
\* request still queued can be taken up by the server.
C18_SlowUpstreamStallsNobody ==
    \A r \in DOMAIN request : \A q \in DOMAIN request :
        (phase[r] = "upstream" /\ phase[q] = "queued") =>
            ENABLED (HandleLocally(q) \/ CallUpstream(q))

\* ------------------------------------------------------- C19
\* C19: on every data route, a request whose accessor call raised is answered
\* with a failure status (400, 404 or 500), never with 200.
C19_NoFailureSwallowed ==
    \A r \in DOMAIN request :
        (Done(r) /\ IsDataRoute(request[r].route) /\ UpstreamRaised(r)) =>
            StatusOf(r) \in {400, 404, 500}

\* A handler with "except Exception" alone and one with "except ValueError"
\* too, both answered after their accessor calls raised.
C19_Witness ==
    \E r \in DOMAIN request : \E q \in DOMAIN request :
        /\ request[r].route = "search_crypto" /\ request[q].route = "get_sjc_gold_price"
        /\ Done(r) /\ UpstreamRaised(r) /\ StatusOf(r) = 500
        /\ Done(q) /\ UpstreamRaised(q) /\ StatusOf(q) = 400

KeysDistinct ==
    \A j, h \in 1..Len(df.columns) : j # h => ColumnKeys(df)[j] # ColumnKeys(df)[h]

C30_CopiesAgree ==
    Finished => api_server_safe_convert_to_records(df, default_value) = result

\* A table with a timestamp and a missing one: both copies give the ISO string
\* and null.
C30_Witness ==
    /\ Returned /\ IsNonEmptyTable
    /\ Len(df.rows) = 2 /\ Len(df.columns) = 1
    /\ df.rows[1][1] = Val("ts", "2024-01-02") /\ df.rows[2][1] = Val("nat", "NaT")
    /\ result.items[1][df.columns[1]] = Val("str", "2024-01-02T00:00:00")
    /\ result.items[2][df.columns[1]] = PyNone
    /\ api_server_safe_convert_to_records(df, default_value) = result

\* ------------------------------------------------------- C25
\* C25: GET /api/v1/market/indices-by-group answers 404 exactly when the
\* lookup returned no value; the 404 raised in the handler reaches the caller
\* as 404 with the handler's message, and an empty table gives 200 with an
\* empty array.
C25_NotFoundExactlyOnNone ==
    \A r \in DOMAIN request :
        (Done(r) /\ request[r].route = "get_indices_by_group") =>
            /\ StatusOf(r) = 404 <=> upstream[r] = Returns(NoneObj)
            /\ StatusOf(r) = 404 => FieldOf(r, "detail") = "Group 'VN30' not found"
            /\ upstream[r] = Returns(EmptyFrame) =>
                  StatusOf(r) = 200 /\ response[r].body = PyList(<<>>)

\* The lookup returned None and the caller got 404; in the same run another
\* lookup returned an empty table and the caller got 200 with [].
C25_Witness ==
    \E r \in DOMAIN request : \E q \in DOMAIN request :
        /\ request[r].route = "get_indices_by_group" /\ Done(r)
        /\ upstream[r] = Returns(NoneObj) /\ StatusOf(r) = 404
        /\ request[q].route = "get_indices_by_group" /\ Done(q)
        /\ upstream[q] = Returns(EmptyFrame) /\ StatusOf(q) = 200
        /\ response[q].body = PyList(<<>>)

\* ------------------------------------------------------- C26
\* C26: GET /ready answers 503 with {"ready": false, "error": message} exactly
\* when its dependency call raised, and 200 with ready true otherwise; it never
\* answers 400 or 500.
C26_ReadinessProbe ==
    \A r \in DOMAIN request :
        (Done(r) /\ request[r].route = "readiness_check") =>
            /\ StatusOf(r) \in {200, 503}
            /\ StatusOf(r) = 503 <=> UpstreamRaised(r)
            /\ StatusOf(r) = 503 =>
                  /\ BodyFields(r) = {K("ready"), K("error")}
                  /\ FieldOf(r, "ready") = "False"
                  /\ FieldOf(r, "error") = upstream[r].msg
            /\ StatusOf(r) = 200 => FieldOf(r, "ready") = "True"

\* The dependency call raised an invalid-argument failure: 503, not 400.
C26_Witness ==
    \E r \in DOMAIN request :
        /\ request[r].route = "readiness_check" /\ Done(r)
        /\ upstream[r] = InvalidArgument
        /\ StatusOf(r) = 503
        /\ FieldOf(r, "error") = "invalid date range"

\* ------------------------------------------------------- C27
\* C27: the price board asked with symbols that hold no ticker after splitting
\* and trimming is answered 400 with the handler's own message, and no
\* accessor call is made.
C27_BlankSymbolsIs400 ==
    \A r \in DOMAIN request :
        ( /\ Done(r) /\ request[r].route = "get_price_board"
          /\ SymbolsList(request[r].symbols) = <<>> ) =>
            /\ calls[r] = 0
            /\ StatusOf(r) = 400
            /\ FieldOf(r, "detail") = "Can it nhat mot ma co phieu"

\* ------------------------------------------------------- parameter claims
\* The route declares a parameter of this name.
Accepts(route, name) ==
    \E i \in 1..Len(Declared(route)) : Declared(route)[i].name = name
\* The accessor of the request has been invoked.
Invoked(r) == calls[r] > 0
\* The values of a body that is an array of records.
BodyValues(r) ==
    IF response[r].body.shape = "list"
      THEN UNION {{response[r].body.items[i][key] : key \in DOMAIN response[r].body.items[i]} :
                      i \in 1..Len(response[r].body.items)}
      ELSE {}

\* ------------------------------------------------------- C21
\* C21: on every route that returns tabular upstream data, the body of a 200
\* response is the normalizer's result for what the accessor returned: it holds
\* no NaN and no infinity, and a missing date is null, never the string "NaT"
\* nor a temporal object.  (The crypto search normalizes a filtered table, so
\* the first part is said of the other routes.)
C21_BodyIsNormalizersResult ==
    \A r \in DOMAIN request :
        ( /\ Done(r) /\ IsDataRoute(request[r].route)
          /\ upstream[r].kind = "returns" /\ StatusOf(r) = 200 ) =>
            /\ request[r].route # "search_crypto" =>
                  response[r].body = JsonBody(Normalized(upstream[r].value).body)
            /\ \A v \in BodyValues(r) :
                  /\ ~IsNonFinite(v)
                  /\ ~IsDatetime(v)
                  /\ v # Val("str", "NaT")

\* ------------------------------------------------------- C22
\* C22: on every route that accepts a symbol parameter the accessor is never
\* invoked with a symbol holding a lowercase letter: it is invoked with the
\* uppercase form of the request's symbol.
C22_SymbolGoesUpstreamUppercase ==
    \A r \in DOMAIN request :
        (Invoked(r) /\ Accepts(request[r].route, "symbol")) =>
            /\ UpperItem(invoked[r].symbol) = invoked[r].symbol
            /\ invoked[r].symbol = UpperItem(ArgOf(request[r], "symbol"))

\* ------------------------------------------------------- C23
\* C23: on every route that accepts an optional end parameter the accessor is
\* never invoked with an absent end, and when the request omits end it is
\* invoked with the current date.
C23_EndDefaultsToToday ==
    \A r \in DOMAIN request :
        (Invoked(r) /\ Accepts(request[r].route, "end")) =>
            /\ invoked[r].end # NoneText
            /\ "end" \notin DOMAIN request[r].params => invoked[r].end = Today

\* ------------------------------------------------------- C24
\* The request leaves out a parameter declared required.
OmitsRequired(req) ==
    \E i \in 1..Len(Declared(req.route)) :
        /\ Declared(req.route)[i].required
        /\ Declared(req.route)[i].name \notin DOMAIN req.params
\* An integer lies outside the bounds a declaration gives.
OutsideBounds(p, n) ==
    \/ p.ge # <<>> /\ n < p.ge[1]
    \/ p.le # <<>> /\ n > p.le[1]
\* The request gives a bounded integer parameter a number outside its bounds.
OutOfBounds(req) ==
    \E i \in 1..Len(Declared(req.route)) :
        LET p == Declared(req.route)[i] IN
            /\ p.kind = "int" /\ p.name \in DOMAIN req.params
            /\ req.params[p.name] \in IntTexts
            /\ OutsideBounds(p, ParseInt(req.params[p.name]))

\* C24: a request that omits a required parameter, or gives a bounded integer
\* parameter (limit, page, page_size, count_back) a value outside its declared
\* bounds, is answered 422 or 400 and no accessor call is ever made for it; no
\* accessor is invoked with an integer outside the declared bounds.
C24_InvalidRequestsStopAtTheDoor ==
    \A r \in DOMAIN request :
        /\ (OmitsRequired(request[r]) \/ OutOfBounds(request[r])) =>
              /\ ~Invoked(r)
              /\ Done(r) => StatusOf(r) \in {422, 400}
        /\ Invoked(r) =>
              \A i \in 1..Len(Declared(request[r].route)) :
                  LET p == Declared(request[r].route)[i] IN
                      p.kind = "int" => ~OutsideBounds(p, invoked[r][p.name])

\* A page size of 0 was answered 422 with no accessor call; so was a request
\* without its required symbol.
C24_Witness ==
    \E r \in DOMAIN request :
        /\ Done(r) /\ ~Invoked(r) /\ StatusOf(r) = 422
        /\ \/ request[r] = ReqWith("get_intraday_data", "page_size", "0")
           \/ request[r] = ReqWithout("get_intraday_data", "symbol")

\* ------------------------------------------------------- C28
SearchRoutes == {"msn_search_symbol", "search_crypto", "search_forex"}
\* The accessor returned a table that has no asset_type column, or no table.
NoAssetTypeColumn(x) ==
    x.shape = "table" => \A h \in 1..Len(x.columns) : x.columns[h] # AssetTypeKey

\* C28: on each of the three search routes a search that returns None is
\* answered 200 with an empty array, and the crypto route answers as the msn
\* route does whenever what the search returned has no asset_type column.
C28_SearchRoutesAgree ==
    \A r \in DOMAIN request :
        (Done(r) /\ request[r].route \in SearchRoutes /\ upstream[r].kind = "returns") =>
            /\ upstream[r].value = NoneObj =>
                  StatusOf(r) = 200 /\ response[r].body = PyList(<<>>)
            /\ (request[r].route = "search_crypto" /\ NoAssetTypeColumn(upstream[r].value)) =>
                  response[r] = Respond(assembly, msn_search_symbol(upstream[r]))

====
